---- MODULE Spec2Model ----
(***************************************************************************)
(* keroxio-image: image upload, background removal, enhancement and batch  *)
(* processing.  The module models                                          *)
(*   - the upload router (app/routers/images.py) over the R2 bucket,       *)
(*   - the backend selector and the lazily created backend singletons,     *)
(*   - the construction of the local backend (BiRefNetService),            *)
(*   - the service methods of the remote (AutoBGService) and the local     *)
(*     (BiRefNetService) backend and the process router in front of them.  *)
(* Each part has its own specification over the shared variables.          *)
(***************************************************************************)
EXTENDS Integers, Sequences, FiniteSets, TLC

VARIABLES
    bucket,      \* R2 bucket: the keys that hold an object
    upReq,       \* the upload request being answered (images router)
    upResp,      \* its HTTP response
    nextId,      \* position in the uuid4() stream
    environ,     \* os.environ / .env when app.config was imported
    pkgs,        \* what the interpreter can import and use
    threads,     \* threadpool workers resolving the backend dependency
    service_instance,   \* _service_instance of birefnet_service and of autobg_service
    constructed, \* every backend object whose __init__ returned, in order
    inst,        \* the backend object the requests are served by (self)
    task,        \* the router handler or background task in progress
    call,        \* the frame of the service method in progress
    batch,       \* the locals of batch_process
    files,       \* STORAGE_PATH/processed: set of [name, data]
    reported,    \* observation: the "model" names remove_background has returned
    canvas,      \* one pixel being composited over a solid backdrop
    statusResp,  \* the last answer of GET /status/{job_id}
    delResp,     \* the last DELETE /{image_id} and its answer (images router)
    multiResp    \* the last POST /upload-multiple and its answer (images router)

vars == <<bucket, upReq, upResp, nextId, environ, pkgs, threads,
          service_instance, constructed,
          inst, task, call, batch, files, reported, canvas, statusResp,
          delResp, multiResp>>

uploadVars == <<bucket, upReq, upResp, nextId>>
imagesVars == <<delResp, multiResp>>
selectVars == <<environ, pkgs, threads, service_instance, constructed>>

serviceVars == <<inst, task, call, batch, files, reported>>

nonUploadVars == <<selectVars, serviceVars, canvas, statusResp, imagesVars>>
nonSelectVars == <<uploadVars, serviceVars, canvas, statusResp, imagesVars>>
nonServiceVars == <<bucket, upReq, upResp, selectVars, canvas, statusResp, imagesVars>>
nonCanvasVars == <<uploadVars, selectVars, serviceVars, statusResp, imagesVars>>
nonStatusVars == <<uploadVars, selectVars, serviceVars, canvas, imagesVars>>

(***************************************************************************)
(* Bounds                                                                  *)
(***************************************************************************)
\* how many uploads one behaviour may store
MaxUploads == 1

None == "None"

(***************************************************************************)
(* Bytes.  A byte string is a sequence of 0..255.                          *)
(***************************************************************************)
JPEG_SIG == <<255, 216, 255>>
PNG_SIG == <<137, 80, 78, 71, 13, 10, 26, 10>>
RIFF_SIG == <<82, 73, 70, 70>>
WEBP_TAG == <<87, 69, 66, 80>>

\* images.py:13-17: the dict, in insertion (= iteration) order
IMAGE_SIGNATURES ==
    << [sig |-> JPEG_SIG, ext |-> "jpeg"],
       [sig |-> PNG_SIG, ext |-> "png"],
       [sig |-> RIFF_SIG, ext |-> "webp"] >>

\* a prefix test that compares only the first two bytes of the signature
StartsWith_Short(content, sig) ==
    /\ Len(content) >= 2
    /\ SubSeq(content, 1, 2) = SubSeq(sig, 1, 2)

\* bytes.startswith
StartsWith(content, sig) ==
    /\ Len(content) >= Len(sig)
    /\ SubSeq(content, 1, Len(sig)) = sig

Min(a, b) == IF a < b THEN a ELSE b

\* Python slice content[lo:hi] (0-based, hi exclusive, clipped to the length)
Slice(content, lo, hi) ==
    IF Min(hi, Len(content)) <= lo THEN <<>>
    ELSE SubSeq(content, lo + 1, Min(hi, Len(content)))

(***************************************************************************)
(* An uploaded file: its declared name, its leading bytes and its length.  *)
(* Bytes after `head` are never read by the router; `size` is len(content).*)
(***************************************************************************)
\* a size limit one byte too generous
MaxFileSize_OneMore == 10 * 1024 * 1024 + 1

\* images.py:60: 10 * 1024 * 1024
MaxFileSize == 10 * 1024 * 1024

ContentLen(c) == c.size

\* images.py:20-32 validate_image_content, on the first `i`-th.. signatures
RECURSIVE ValidateFrom(_, _)
ValidateFrom(c, i) ==
    IF i > Len(IMAGE_SIGNATURES) THEN None
    ELSE IF StartsWith(c.head, IMAGE_SIGNATURES[i].sig) THEN IMAGE_SIGNATURES[i].ext
    ELSE IF /\ IMAGE_SIGNATURES[i].sig = RIFF_SIG
            /\ ContentLen(c) > 12
            /\ Slice(c.head, 8, 12) = WEBP_TAG THEN "webp"
    ELSE ValidateFrom(c, i + 1)

validate_image_content(c) == ValidateFrom(c, 1)

(***************************************************************************)
(* File names are sequences of characters.                                 *)
(***************************************************************************)
UpperCase == <<"A","B","C","D","E","F","G","H","I","J","K","L","M",
               "N","O","P","Q","R","S","T","U","V","W","X","Y","Z">>
LowerCase == <<"a","b","c","d","e","f","g","h","i","j","k","l","m",
               "n","o","p","q","r","s","t","u","v","w","x","y","z">>

\* str.lower on one character
LowerChar(ch) ==
    IF \E i \in 1..Len(UpperCase) : UpperCase[i] = ch
    THEN LowerCase[CHOOSE i \in 1..Len(UpperCase) : UpperCase[i] = ch]
    ELSE ch

Lower(s) == [i \in 1..Len(s) |-> LowerChar(s[i])]

\* position of the last "." of s, 0 when there is none
LastDot(s) ==
    IF \E i \in 1..Len(s) : s[i] = "."
    THEN CHOOSE i \in 1..Len(s) : s[i] = "." /\ \A j \in (i+1)..Len(s) : s[j] # "."
    ELSE 0

\* images.py:49: file.filename.split(".")[-1].lower()
DeclaredExtension(filename) ==
    Lower(SubSeq(filename, LastDot(filename) + 1, Len(filename)))

\* images.py:50: ["jpg", "jpeg", "png", "webp"]
ALLOWED_EXTENSIONS ==
    { <<"j","p","g">>, <<"j","p","e","g">>, <<"p","n","g">>, <<"w","e","b","p">> }

\* the detected type used as the extension unchanged
ActualExtension_Raw(detected_type) == detected_type

\* images.py:75: "jpg" if detected_type == "jpeg" else detected_type
ActualExtension(detected_type) ==
    IF detected_type = "jpeg" THEN "jpg" ELSE detected_type

\* images.py:79: f"{current_user['id']}/{image_id}.{actual_extension}"
UploadKey(user, image_id, ext) == <<user, "/", image_id, ".", ext>>

\* str(uuid.uuid4()): the n-th value of the stream
Uuid(n) == <<"uuid", n>>

(***************************************************************************)
(* StorageService (app/services/storage.py)                                *)
(***************************************************************************)
\* config.py:27
R2_PUBLIC_URL == ""

\* s3 put_object.  No modelled operation reads an object back (download has no
\* caller), so the bucket is the set of keys that hold an object.
PutObject(b, key) == b \cup {key}

\* storage.py:23-44 upload; put_ok: whether put_object returned normally
StorageUpload(b, key, put_ok) ==
    IF put_ok
    THEN [bucket |-> PutObject(b, key),
          url |-> IF R2_PUBLIC_URL # ""
                  THEN <<R2_PUBLIC_URL, "/">> \o key
                  ELSE <<"https://keroxio-images.r2.cloudflarestorage.com/">> \o key]
    ELSE [bucket |-> b,
          url |-> <<"https://images.keroxio.fr/">> \o key]

(***************************************************************************)
(* The upload router (app/routers/images.py)                               *)
(***************************************************************************)
BadRequest(detail) ==
    [status |-> 400, detail |-> detail, id |-> <<>>, url |-> <<>>, key |-> <<>>]

NoRequest == [filename |-> <<>>, head |-> <<>>, size |-> 0, user |-> None, before |-> {}]
NoResponse == [status |-> 0, detail |-> None, id |-> <<>>, url |-> <<>>, key |-> <<>>]

\* images.py:35-91 upload_image
upload_image(file, user, put_ok) ==
    /\ UNCHANGED nonUploadVars
    /\ upReq' = [filename |-> file.filename, head |-> file.head,
                 size |-> file.size, user |-> user, before |-> bucket]
    /\ IF file.filename = <<>>
       THEN /\ upResp' = BadRequest("Filename is required")
            /\ UNCHANGED <<bucket, nextId>>
       ELSE IF DeclaredExtension(file.filename) \notin ALLOWED_EXTENSIONS
       THEN /\ upResp' = BadRequest("Invalid file type")
            /\ UNCHANGED <<bucket, nextId>>
       ELSE IF ContentLen(file) > MaxFileSize
       THEN /\ upResp' = BadRequest("File too large")
            /\ UNCHANGED <<bucket, nextId>>
       ELSE IF validate_image_content(file) = None
       THEN /\ upResp' = BadRequest("Invalid image content")
            /\ UNCHANGED <<bucket, nextId>>
       ELSE LET key == UploadKey(user, Uuid(nextId),
                                 ActualExtension(validate_image_content(file)))
                up == StorageUpload(bucket, key, put_ok)
            IN /\ nextId < MaxUploads
               /\ nextId' = nextId + 1
               /\ bucket' = up.bucket
               /\ upResp' = [status |-> 200, detail |-> None, id |-> Uuid(nextId),
                             url |-> up.url, key |-> key]

\* s3 delete_object: deleting a key that holds no object succeeds
DeleteObject(b, key) == b \ {key}

\* storage.py:46-53 delete; del_ok: whether delete_object returned normally
StorageDelete(b, key, del_ok) ==
    IF del_ok
    THEN [bucket |-> DeleteObject(b, key), ret |-> TRUE]
    ELSE [bucket |-> b, ret |-> FALSE]

NoDeletion == [status |-> 0, message |-> None, user |-> None, image_id |-> <<>>,
               key |-> <<>>, deleted |-> FALSE, before |-> {}]

\* images.py:170: filename = f"{current_user['id']}/{image_id}"; image_id is
\* the path parameter, a string given by its parts
DeleteKey(user, image_id) == <<user, "/">> \o image_id

\* images.py:162-173 delete_image; deleted observes what storage.delete
\* returned, which the handler drops
delete_image(image_id, user, del_ok) ==
    LET key == DeleteKey(user, image_id)
        del == StorageDelete(bucket, key, del_ok)
    IN /\ bucket' = del.bucket
       /\ delResp' = [status |-> 200, message |-> "Image deleted successfully",
                      user |-> user, image_id |-> image_id, key |-> key,
                      deleted |-> del.ret, before |-> bucket]
       /\ UNCHANGED <<upReq, upResp, nextId, multiResp>>
       /\ UNCHANGED <<selectVars, serviceVars, canvas, statusResp>>

\* a request limit of one file more
MaxFiles_OneMore == 10 + 1

\* images.py:101: len(files) > 10
MaxFiles == 10

NoMulti == [status |-> 0, detail |-> None, results |-> <<>>, user |-> None,
            files |-> <<>>, failing |-> {}, read |-> 0, before |-> {}]

\* images.py:108-140: the body of the for loop on the file at position k of
\* the request; st holds the bucket, the uuid4() values drawn, the results
\* list and the number of bodies read
UploadOne(st, file, k, user, failing) ==
    IF file.filename = <<>> THEN st
    ELSE IF DeclaredExtension(file.filename) \notin ALLOWED_EXTENSIONS THEN st
    ELSE IF ContentLen(file) > MaxFileSize THEN [st EXCEPT !.read = @ + 1]
    ELSE IF validate_image_content(file) = None THEN [st EXCEPT !.read = @ + 1]
    ELSE LET image_id == Uuid(st.ids)
             key == UploadKey(user, image_id,
                              ActualExtension(validate_image_content(file)))
             up == StorageUpload(st.bucket, key, k \notin failing)
         IN [bucket |-> up.bucket, ids |-> st.ids + 1, read |-> st.read + 1,
             results |-> Append(st.results,
                                [id |-> image_id, url |-> up.url, key |-> key,
                                 filename |-> file.filename,
                                 size |-> ContentLen(file)])]

\* images.py:107-140: the for loop from position k on
RECURSIVE UploadEach(_, _, _, _, _)
UploadEach(st, fs, k, user, failing) ==
    IF k > Len(fs) THEN st
    ELSE UploadEach(UploadOne(st, fs[k], k, user, failing), fs, k + 1, user, failing)

\* images.py:94-142 upload_multiple_images; failing: the positions of the
\* files on which put_object raises
upload_multiple_images(fs, user, failing) ==
    /\ nextId < MaxUploads
    /\ UNCHANGED <<upReq, upResp, delResp>>
    /\ UNCHANGED <<selectVars, serviceVars, canvas, statusResp>>
    /\ IF Len(fs) > MaxFiles
       THEN /\ multiResp' = [NoMulti EXCEPT
                                !.status = 400,
                                !.detail = "Maximum 10 images per request",
                                !.user = user, !.files = fs, !.failing = failing,
                                !.before = bucket]
            /\ UNCHANGED <<bucket, nextId>>
       ELSE LET st == UploadEach([bucket |-> bucket, ids |-> nextId, read |-> 0,
                                  results |-> <<>>], fs, 1, user, failing)
            IN /\ nextId' = st.ids
               /\ bucket' = st.bucket
               /\ multiResp' = [status |-> 200, detail |-> None,
                                results |-> st.results, user |-> user,
                                files |-> fs, failing |-> failing,
                                read |-> st.read, before |-> bucket]

(***************************************************************************)
(* Settings (app/config.py)                                                *)
(***************************************************************************)
\* config.py:5-37: the declared fields and their defaults ("required": none)
SettingsDefaults ==
    [ SERVICE_NAME |-> "image-service",
      JWT_SECRET |-> "required",
      JWT_ALGORITHM |-> "HS256",
      NANO_BANANA_API_KEY |-> "",
      NANO_BANANA_API_URL |-> "https://api.nanobanana.ai/v1",
      STORAGE_PATH |-> "/app/storage",
      STORAGE_URL |-> "/storage",
      R2_ACCOUNT_ID |-> "",
      R2_ACCESS_KEY |-> "",
      R2_SECRET_KEY |-> "",
      R2_BUCKET_NAME |-> "keroxio-images",
      R2_PUBLIC_URL |-> R2_PUBLIC_URL,
      REDIS_URL |-> "redis://localhost:6379",
      CORS_ORIGINS |-> "http://localhost:3000" ]

\* config.py:39-41, 51-56: Settings() reads the declared fields from the
\* environment; extra = "ignore" drops every other variable
LoadSettings(environment) ==
    [ f \in DOMAIN SettingsDefaults |->
        IF f \in DOMAIN environment THEN environment[f] ELSE SettingsDefaults[f] ]

settings == LoadSettings(environ)

\* attribute access on the settings object: the value, or AttributeError
GetAttr(obj, name) ==
    IF name \in DOMAIN obj
    THEN [exc |-> None, value |-> obj[name]]
    ELSE [exc |-> "AttributeError", value |-> ""]

\* truth value of a str
Truthy(str) == str # ""

(***************************************************************************)
(* Backend construction                                                    *)
(***************************************************************************)
NoObject == [id |-> 0, kind |-> None, model |-> None, processor |-> None,
             device |-> None, fallback_session |-> None, api_key |-> None,
             session |-> None]

Raised(type) == [exc |-> type, self |-> NoObject]
Returned(obj) == [exc |-> None, self |-> obj]

\* birefnet_service.py:41-67 _load_model.  proc, mdl: how the two
\* from_pretrained calls end ("ok" or the exception raised); sess: how
\* rembg.new_session ends
LoadModel(p, proc, mdl, sess) ==
    LET tried ==
            IF ~p.transformers THEN [exc |-> "ImportError", processor |-> None]
            ELSE IF proc # "ok" THEN [exc |-> proc, processor |-> None]
            ELSE IF mdl # "ok" THEN [exc |-> mdl, processor |-> "AutoProcessor"]
            ELSE [exc |-> None, processor |-> "AutoProcessor"]
    IN IF tried.exc = None
       THEN [exc |-> None, model |-> "BiRefNet", processor |-> tried.processor,
             fallback_session |-> None]
       ELSE IF tried.exc # "ImportError"
       THEN [exc |-> tried.exc, model |-> None, processor |-> tried.processor,
             fallback_session |-> None]
       ELSE IF ~p.rembg
       THEN [exc |-> "ImportError", model |-> None, processor |-> tried.processor,
             fallback_session |-> None]
       ELSE IF sess # "ok"
       THEN [exc |-> sess, model |-> None, processor |-> tried.processor,
             fallback_session |-> None]
       ELSE [exc |-> None, model |-> None, processor |-> tried.processor,
             fallback_session |-> "u2net"]

\* birefnet_service.py:29-39 BiRefNetService.__init__
BiRefNetService_init(id, p, proc, mdl, sess) ==
    LET loaded == LoadModel(p, proc, mdl, sess) IN
    IF loaded.exc # None THEN Raised(loaded.exc)
    ELSE Returned([id |-> id, kind |-> "birefnet", model |-> loaded.model,
                   processor |-> loaded.processor,
                   device |-> IF p.cuda THEN "cuda" ELSE "cpu",
                   fallback_session |-> loaded.fallback_session,
                   api_key |-> None, session |-> None])

\* autobg_service.py:28-30 AutoBGService.__init__
AutoBGService_init(id, cfg) ==
    LET key == GetAttr(cfg, "AUTOBG_API_KEY") IN
    IF key.exc # None THEN Raised(key.exc)
    ELSE Returned([id |-> id, kind |-> "autobg", model |-> None, processor |-> None,
                   device |-> None, fallback_session |-> None,
                   api_key |-> key.value, session |-> None])

\* rembg_service.py:21-29 RembgService.__init__; the module imports rembg
\* at its top (rembg_service.py:13)
RembgService_init(id, p, sess) ==
    IF ~p.rembg THEN Raised("ImportError")
    ELSE IF sess # "ok" THEN Raised(sess)
    ELSE Returned([NoObject EXCEPT !.id = id, !.kind = "rembg", !.session = "u2net"])

\* outcomes of AutoProcessor / AutoModel .from_pretrained (download, load,
\* imports of the remote code) and of rembg.new_session (download of u2net)
PretrainedOutcomes == {"ok", "OSError", "ImportError"}
SessionOutcomes == {"ok", "OSError"}

(***************************************************************************)
(* The backend selector and the singleton accessors, called on threadpool  *)
(* workers (a `def` dependency runs in the threadpool)                     *)
(***************************************************************************)
Threads == {"w1", "w2"}

Modules == {"birefnet", "autobg"}

Idle == [fn |-> None, mod |-> None, pc |-> "idle", new |-> NoObject,
         exc |-> None, result |-> NoObject]

Frame(t) == threads[t]

Goto(t, label) == threads' = [threads EXCEPT ![t].pc = label]

\* the call of thread t ends by raising `type`
Raise(t, type) ==
    threads' = [threads EXCEPT ![t].pc = "raised", ![t].exc = type]

\* the call of thread t ends by returning obj
Return(t, obj) ==
    threads' = [threads EXCEPT ![t].pc = "returned", ![t].result = obj]

\* a worker picks up a call: the dependency, or an accessor called directly
\* (its module is then already imported)
Call(t) ==
    /\ Frame(t).pc \in {"idle", "raised", "returned"}
    /\ \/ threads' = [threads EXCEPT ![t] =
              [Idle EXCEPT !.fn = "get_image_service", !.pc = "select"]]
       \/ \E m \in Modules :
             /\ m = "birefnet" => pkgs.torch
             /\ threads' = [threads EXCEPT ![t] =
                   [Idle EXCEPT !.fn = "get_" \o m \o "_service", !.mod = m,
                                !.pc = "check"]]
    /\ UNCHANGED nonSelectVars
    /\ UNCHANGED <<environ, pkgs, service_instance, constructed>>

\* process.py:17-26 get_image_service: the test of settings.AUTOBG_API_KEY,
\* the import of the chosen service module and the call of its accessor
Select(t) ==
    /\ Frame(t).pc = "select"
    /\ LET key == GetAttr(settings, "AUTOBG_API_KEY") IN
       IF key.exc # None THEN Raise(t, key.exc)
       ELSE IF Truthy(key.value)
       THEN threads' = [threads EXCEPT ![t].pc = "check", ![t].mod = "autobg"]
       ELSE IF ~pkgs.torch THEN Raise(t, "ImportError")
       ELSE threads' = [threads EXCEPT ![t].pc = "check", ![t].mod = "birefnet"]
    /\ UNCHANGED nonSelectVars
    /\ UNCHANGED <<environ, pkgs, service_instance, constructed>>

\* birefnet_service.py:316, autobg_service.py:243 `if _service_instance is None`
Check(t) ==
    /\ Frame(t).pc = "check"
    /\ IF service_instance[Frame(t).mod] = NoObject
       THEN Goto(t, "construct")
       ELSE Goto(t, "return")
    /\ UNCHANGED nonSelectVars
    /\ UNCHANGED <<environ, pkgs, service_instance, constructed>>

\* birefnet_service.py:317, autobg_service.py:244, right-hand side:
\* BiRefNetService() / AutoBGService()
Construct(t) ==
    /\ Frame(t).pc = "construct"
    /\ \E proc \in PretrainedOutcomes, mdl \in PretrainedOutcomes, sess \in SessionOutcomes :
          LET r == IF Frame(t).mod = "autobg"
                   THEN AutoBGService_init(Len(constructed) + 1, settings)
                   ELSE BiRefNetService_init(Len(constructed) + 1, pkgs, proc, mdl, sess)
          IN IF r.exc # None
             THEN Raise(t, r.exc) /\ UNCHANGED constructed
             ELSE /\ threads' = [threads EXCEPT ![t].pc = "assign", ![t].new = r.self]
                  /\ constructed' = Append(constructed, r.self)
    /\ UNCHANGED nonSelectVars
    /\ UNCHANGED <<environ, pkgs, service_instance>>

\* birefnet_service.py:317, autobg_service.py:244, the store to the global
Assign(t) ==
    /\ Frame(t).pc = "assign"
    /\ service_instance' = [service_instance EXCEPT ![Frame(t).mod] = Frame(t).new]
    /\ Goto(t, "return")
    /\ UNCHANGED nonSelectVars
    /\ UNCHANGED <<environ, pkgs, constructed>>

\* birefnet_service.py:318, autobg_service.py:245 `return _service_instance`
AccessorReturn(t) ==
    /\ Frame(t).pc = "return"
    /\ Return(t, service_instance[Frame(t).mod])
    /\ UNCHANGED nonSelectVars
    /\ UNCHANGED <<environ, pkgs, service_instance, constructed>>

\* the environments a started process can have: JWT_SECRET is set (Settings()
\* fails without it), AUTOBG_API_KEY is unset, empty or set
Environments ==
    { [JWT_SECRET |-> "secret"],
      [JWT_SECRET |-> "secret", AUTOBG_API_KEY |-> ""],
      [JWT_SECRET |-> "secret", AUTOBG_API_KEY |-> "key"] }

Packages == [torch : BOOLEAN, cuda : BOOLEAN, transformers : BOOLEAN, rembg : BOOLEAN]

SelectInit ==
    /\ environ \in Environments
    /\ pkgs \in {p \in Packages : p.cuda => p.torch}
    /\ threads = [t \in Threads |-> Idle]
    /\ service_instance = [m \in Modules |-> NoObject]
    /\ constructed = <<>>

(***************************************************************************)
(* The outside world of the service methods                                *)
(***************************************************************************)
\* Image URLs.  "a" and "b" serve an image, "j" serves bytes that are no
\* image, "x" answers 404.
Urls == {"a", "b", "j", "x"}

\* the body served at a URL
Content(url) == <<"content", url>>

\* httpx GET + raise_for_status (_download_image): the exception or the body
HttpGet(url) ==
    IF url = "x" THEN [exc |-> "HTTPStatusError", content |-> <<>>]
    ELSE [exc |-> None, content |-> Content(url)]

\* PIL can open the bytes
Decodable(content) == content # Content("j")

\* how POST <base>/remove-background ends: a transport error, a non-2xx
\* status, or a 2xx response with one of these bodies
PostOutcomes ==
    { "ConnectError", "HTTPStatusError",
      "body_not_json", "body_number", "body_empty_object",
      "body_image", "body_image_bad_base64", "body_url_b", "body_url_x" }

\* how the segmentation model (BiRefNet forward pass / rembg.remove) ends
InferOutcomes == {"ok", "RuntimeError"}

\* httpx.HTTPError and its subclasses (TransportError, HTTPStatusError)
IsHTTPError(e) == e \in {"ConnectError", "HTTPStatusError"}

(***************************************************************************)
(* Colours                                                                 *)
(***************************************************************************)
HexDigits == <<"0","1","2","3","4","5","6","7","8","9","a","b","c","d","e","f">>

IsHexDigit(ch) == \E i \in 1..16 : HexDigits[i] = LowerChar(ch)
HexDigitValue(ch) == (CHOOSE i \in 1..16 : HexDigits[i] = LowerChar(ch)) - 1

\* str.lstrip("#")
RECURSIVE LStripHash(_)
LStripHash(str) ==
    IF str # <<>> /\ Head(str) = "#" THEN LStripHash(Tail(str)) ELSE str

\* int(text, 16) of a slice of at most two characters: -1 stands for ValueError
HexInt(text) ==
    IF text = <<>> \/ \E i \in 1..Len(text) : ~IsHexDigit(text[i]) THEN -1
    ELSE IF Len(text) = 1 THEN HexDigitValue(text[1])
    ELSE 16 * HexDigitValue(text[1]) + HexDigitValue(text[2])

\* birefnet_service.py:86-89 _hex_to_rgb
HexToRgb(hex_color) ==
    LET h == LStripHash(hex_color)
        rgb == <<HexInt(Slice(h, 0, 2)), HexInt(Slice(h, 2, 4)), HexInt(Slice(h, 4, 6))>>
    IN IF \E i \in 1..3 : rgb[i] = -1
       THEN [exc |-> "ValueError", rgb |-> <<>>]
       ELSE [exc |-> None, rgb |-> rgb]

NoColor == <<>>
Hex(a, b, c, d, e, f) == <<"#", a, b, c, d, e, f>>

\* birefnet_service.py:33-38 self._backgrounds
Backgrounds ==
    [ white |-> Hex("F","F","F","F","F","F"),
      gray |-> Hex("8","0","8","0","8","0"),
      dark |-> Hex("1","f","2","9","3","7"),
      showroom |-> Hex("2","d","3","7","4","8") ]

\* birefnet_service.py:252-260 showroom_backgrounds
ShowroomBackgrounds ==
    [ indoor |-> Hex("1","a","1","a","2","e"),
      outdoor |-> Hex("8","7","C","E","E","B"),
      studio |-> Hex("2","d","3","7","4","8"),
      dark |-> Hex("0","f","0","f","0","f"),
      white |-> Hex("f","8","f","9","f","a"),
      gradient_dark |-> Hex("1","a","1","a","2","e"),
      garage |-> Hex("3","d","3","d","3","d") ]

\* birefnet_service.py:262 showroom_backgrounds.get(showroom_type, "#2d3748")
ShowroomColor(showroom_type) ==
    IF showroom_type \in DOMAIN ShowroomBackgrounds
    THEN ShowroomBackgrounds[showroom_type]
    ELSE Hex("2","d","3","7","4","8")

\* rembg_service.py:211-217 showroom_backgrounds
RembgShowroomBackgrounds ==
    [ indoor |-> Hex("1","a","1","a","2","e"),
      outdoor |-> Hex("8","7","C","E","E","B"),
      studio |-> Hex("2","d","3","7","4","8"),
      dark |-> Hex("0","f","0","f","0","f"),
      white |-> Hex("f","8","f","9","f","a") ]

\* rembg_service.py:219 showroom_backgrounds.get(showroom_type, "#2d3748")
RembgShowroomColor(showroom_type) ==
    IF showroom_type \in DOMAIN RembgShowroomBackgrounds
    THEN RembgShowroomBackgrounds[showroom_type]
    ELSE Hex("2","d","3","7","4","8")

(***************************************************************************)
(* Images and encoded bytes                                                *)
(***************************************************************************)
\* a decoded image: the source bytes it was decoded from, its mode, whether
\* its alpha channel is the segmentation mask, the backdrop it was pasted
\* on and the adjustments applied to it
NoBackdrop == [rgb |-> <<>>, src |-> <<>>]
SolidBackdrop(rgb) == [rgb |-> rgb, src |-> <<>>]
ImageBackdrop(content) == [rgb |-> <<>>, src |-> content]

NoImage == [src |-> <<>>, mode |-> None, mask |-> FALSE, over |-> NoBackdrop, adj |-> <<>>]

\* Image.open(io.BytesIO(b)).convert("RGB")
OpenRGB(content) ==
    [src |-> content, mode |-> "RGB", mask |-> FALSE, over |-> NoBackdrop, adj |-> <<>>]

\* birefnet_service.py:91-123 _birefnet_remove_bg: the image in RGBA with the
\* mask as alpha
WithMask(image) == [image EXCEPT !.mode = "RGBA", !.mask = TRUE]

\* birefnet_service.py:155-157 paste over an opaque backdrop, convert("RGB")
PasteOver(image, backdrop) == [image EXCEPT !.mode = "RGB", !.over = backdrop]

\* Image.convert("RGB"): the alpha channel is dropped
ConvertRGB(image) == [image EXCEPT !.mode = "RGB"]

\* bytes: unmodified bytes (format "raw", named by src) or an encoded image
NoSetting == [color |-> <<>>, name |-> None]
NoData == [format |-> None, quality |-> 0, src |-> <<>>, image |-> NoImage, remote |-> NoSetting]
RawData(src) == [NoData EXCEPT !.format = "raw", !.src = src]
\* the bytes the remote service made of src under a background setting
RemoteData(src, setting) == [NoData EXCEPT !.format = "remote", !.src = src, !.remote = setting]
SavePNG(image) == [NoData EXCEPT !.format = "PNG", !.image = image]
SaveJPEG(image, q) == [NoData EXCEPT !.format = "JPEG", !.quality = q, !.image = image]

(***************************************************************************)
(* Pixels.  Image.paste(im, mask=m) mixes, per pixel and per band, the     *)
(* pasted image into the image underneath: the pasted value where the mask *)
(* is 255, the value underneath where it is 0, a rounded mix in between.   *)
(***************************************************************************)
\* a mix that truncates instead of rounding
Blend8_Truncating(mask, under, pasted) ==
    (under * (255 - mask) + pasted * mask) \div 256

\* rounded division by 255 of a product of two bytes
Div255(a) == LET t == a + 128 IN ((t \div 256) + t) \div 256

\* birefnet_service.py:156 background.paste(result_image, mask=...): one band
\* of one pixel
Blend8(mask, under, pasted) == Div255(under * (255 - mask) + pasted * mask)

\* birefnet_service.py:154-157: one RGBA pixel of the cut-out over the solid
\* backdrop bg_color + (255,), mask = the cut-out's alpha, then convert("RGB")
CompositePixel(fg, bg_color) ==
    LET under == bg_color \o <<255>>
        rgba == [b \in 1..4 |-> Blend8(fg[4], under[b], fg[b])]
    IN <<rgba[1], rgba[2], rgba[3]>>

NoCanvas == [fg |-> <<0, 0, 0, 0>>, color |-> NoColor, out |-> <<>>]

\* band values and mask values of the pixels composited
BandValues == {0, 128, 255}
MaskValues == {0, 1, 128, 254, 255}
SolidColors == { Hex("1","1","2","2","3","3"), Hex("F","F","F","F","F","F"),
                 Hex("0","0","0","0","0","0") }

CanvasInit ==
    \E r \in BandValues, g \in BandValues, b \in BandValues, a \in MaskValues,
       color \in SolidColors :
        canvas = [fg |-> <<r, g, b, a>>, color |-> color, out |-> <<>>]

CanvasRest == canvas = NoCanvas

\* birefnet_service.py:153-157: the solid branch on one pixel
CompositeSolid ==
    /\ canvas.out = <<>>
    /\ canvas.color # NoColor
    /\ canvas' = [canvas EXCEPT !.out = CompositePixel(canvas.fg, HexToRgb(canvas.color).rgb)]
    /\ UNCHANGED nonCanvasVars

(***************************************************************************)
(* Service methods (BiRefNetService, AutoBGService).  A method runs in     *)
(* steps: one step per await that suspends (a download, the remote POST,   *)
(* the inference thread); everything between two of them is one step.      *)
(* Writing STORAGE_PATH/processed is taken to succeed.                     *)
(***************************************************************************)
\* config.py:20
STORAGE_URL == "/storage"

\* birefnet_service.py:178, 231; autobg_service.py:182; rembg_service.py:184
JpegQuality == 92

\* rembg_service.py:121
RembgJpegQuality == 90

EmptyDict == [k \in {} |-> TRUE]

\* dict.get(key, default)
DictGet(d, key, default) == IF key \in DOMAIN d THEN d[key] ELSE default

NoResult == [id |-> <<>>, url |-> <<>>, model |-> None, status |-> None]

NoCall ==
    [ entry |-> None, method |-> None, pc |-> "none",
      image_url |-> None, background_type |-> None, background_color |-> NoColor,
      background_url |-> None, options |-> EmptyDict,
      image_bytes |-> <<>>, image |-> NoImage,
      response |-> None, result_url |-> None,
      log |-> <<>>, exc |-> None, ret |-> NoResult ]

\* the effect of one step: the frame after it, the files it wrote and the
\* number of uuid4() values it drew
Continue(c) == [call |-> c, write |-> {}, ids |-> 0]

\* a failing step that leaves a partial file behind
RaiseIn_Partial(c, type) ==
    [call |-> [c EXCEPT !.pc = "raised", !.exc = type],
     write |-> {[name |-> <<Uuid(nextId), ".", "part">>, data |-> NoData]},
     ids |-> 1]

RaiseIn(c, type) ==
    [call |-> [c EXCEPT !.pc = "raised", !.exc = type], write |-> {}, ids |-> 0]

Logged(c, what) == [c EXCEPT !.log = Append(@, what)]

\* _upload_image / _upload_to_storage and the returned dict
\* (birefnet_service.py:183-195, 234-244; autobg_service.py:115-128, 185-195)
Stored(c, data, ext, model) ==
    LET name == <<Uuid(nextId), ".", ext>> IN
    [ call |-> [Logged(c, "store") EXCEPT
                    !.pc = "returned",
                    !.ret = [id |-> Uuid(nextId + 1),
                             url |-> <<STORAGE_URL, "/processed/">> \o name,
                             model |-> model,
                             status |-> "completed"]],
      write |-> {[name |-> name, data |-> data]},
      ids |-> 2 ]

\* birefnet_service.py:193; RembgService returns no "model"
\* (rembg_service.py:133-138)
ModelName(self) ==
    IF self.kind = "rembg" THEN None
    ELSE IF self.model # None THEN "BiRefNet" ELSE "rembg-fallback"

\* birefnet_service.py:178, rembg_service.py:121: quality of the JPEG that
\* remove_background saves
CompositeQuality(self) ==
    IF self.kind = "rembg" THEN RembgJpegQuality ELSE JpegQuality

\* birefnet_service.py:172-195, rembg_service.py:116-138: encode the result
\* and store it
SaveResult(self, c, image) ==
    IF c.background_type = "transparent"
    THEN Stored(c, SavePNG(image), "png", ModelName(self))
    ELSE Stored(c, SaveJPEG(ConvertRGB(image), CompositeQuality(self)), "jpg",
                ModelName(self))

\* birefnet_service.py:152-170: apply the background
Composite(self, c, image) ==
    IF c.background_type = "solid" /\ c.background_color # NoColor
    THEN LET h == HexToRgb(c.background_color) IN
         IF h.exc # None THEN RaiseIn(c, h.exc)
         ELSE SaveResult(self, Logged(c, "composite"), PasteOver(image, SolidBackdrop(h.rgb)))
    ELSE IF c.background_type = "custom" /\ c.background_url # None
    THEN Continue([c EXCEPT !.pc = "download_bg", !.image = image])
    ELSE IF c.background_type \in DOMAIN Backgrounds
    THEN SaveResult(self, Logged(c, "composite"),
                    PasteOver(image, SolidBackdrop(HexToRgb(Backgrounds[c.background_type]).rgb)))
    ELSE SaveResult(self, c, image)

\* an enhancer whose contrast step does not look at its toggle
Adjustments_ContrastAlways(self, options) ==
    (IF DictGet(options, "auto_color", TRUE) THEN <<"color*1.15">> ELSE <<>>)
    \o <<"contrast*1.1">>
    \o (IF DictGet(options, "sharpen", TRUE) THEN <<"sharpness*1.2">> ELSE <<>>)
    \o <<"brightness*1.05">>

\* the adjustments of enhance_image, in the order applied
\* (birefnet_service.py:211-228; autobg_service.py:165-179 has no denoise)
Adjustments(self, options) ==
    (IF DictGet(options, "auto_color", TRUE) THEN <<"color*1.15">> ELSE <<>>)
    \o (IF DictGet(options, "contrast", TRUE) THEN <<"contrast*1.1">> ELSE <<>>)
    \o (IF self.kind # "autobg" /\ DictGet(options, "denoise", FALSE)
        THEN <<"blur0.5">> ELSE <<>>)
    \o (IF DictGet(options, "sharpen", TRUE) THEN <<"sharpness*1.2">> ELSE <<>>)
    \o <<"brightness*1.05">>

\* autobg_service.py:80-85 bg_setting
BgSetting(c) ==
    IF c.background_type = "solid" /\ c.background_color # NoColor
    THEN [color |-> c.background_color, name |-> None]
    ELSE IF c.background_type \in {"showroom", "indoor", "studio", "outdoor"}
    THEN [color |-> <<>>, name |-> c.background_type]
    ELSE [color |-> <<>>, name |-> "transparent"]

\* autobg_service.py:115-128: store the processed bytes
StoreProcessed(c, data) ==
    Stored(c, data, IF c.background_type = "transparent" THEN "png" ELSE "jpg",
           "autobg-ai")

\* the frame of a fresh call of remove_background / enhance_image
NewCall(entry, method, url, type, color, bg_url, options) ==
    [NoCall EXCEPT !.entry = entry, !.method = method, !.pc = "download",
                   !.image_url = url, !.background_type = type,
                   !.background_color = color, !.background_url = bg_url,
                   !.options = options]

\* remove_background(...) called on the backend
CallRemoveBackground(url, type, color, bg_url) ==
    NewCall("remove_background", "remove_background", url, type, color, bg_url, EmptyDict)

\* enhance_image(url, options); `options = options or {}`
CallEnhance(url, options) ==
    NewCall("enhance_image", "enhance_image", url, None, NoColor, None, options)

\* virtual_showroom(url, showroom_type)
\* (birefnet_service.py:246-268, autobg_service.py:130-146)
CallShowroom(self, url, showroom_type) ==
    IF self.kind = "birefnet"
    THEN NewCall("virtual_showroom", "remove_background", url, "solid",
                 ShowroomColor(showroom_type), None, EmptyDict)
    ELSE IF self.kind = "rembg"
    THEN NewCall("virtual_showroom", "remove_background", url, "solid",
                 RembgShowroomColor(showroom_type), None, EmptyDict)
    ELSE NewCall("virtual_showroom", "remove_background", url, showroom_type,
                 NoColor, None, EmptyDict)

\* the step after `await self._download_image(image_url)`
\* (birefnet_service.py:144-145, 208-235; autobg_service.py:69-90, 162-186)
AfterDownload(self, c) ==
    LET got == HttpGet(c.image_url)
        f == Logged(c, "fetch")
    IN IF got.exc # None THEN RaiseIn(f, got.exc)
       ELSE IF c.method = "remove_background" /\ self.kind = "autobg"
       THEN Continue([f EXCEPT !.pc = "post", !.image_bytes = got.content])
       ELSE IF c.method = "remove_background" /\ self.kind = "rembg"
       THEN Continue([f EXCEPT !.pc = "segment", !.image_bytes = got.content])
       ELSE IF ~Decodable(got.content) THEN RaiseIn(f, "UnidentifiedImageError")
       ELSE IF c.method = "remove_background"
       THEN Continue([f EXCEPT !.pc = "segment", !.image_bytes = got.content,
                               !.image = OpenRGB(got.content)])
       ELSE Stored([f EXCEPT !.image_bytes = got.content],
                   SaveJPEG([OpenRGB(got.content) EXCEPT
                                !.adj = Adjustments(self, c.options)], JpegQuality),
                   "jpg", None)

\* the step after `await asyncio.to_thread(self._birefnet_remove_bg, image)`
\* (birefnet_service.py:91-123, 148-195); infer: how the inference ended
AfterSegment(self, c, infer) ==
    IF self.kind = "rembg"
    THEN IF ~Decodable(c.image_bytes) THEN RaiseIn(c, "UnidentifiedImageError")
         ELSE IF infer # "ok" THEN RaiseIn(c, infer)
         ELSE Composite(self, Logged(c, "segment"), WithMask(OpenRGB(c.image_bytes)))
    ELSE IF self.model = None /\ self.fallback_session = None
    THEN RaiseIn(c, "AttributeError")
    ELSE IF infer # "ok" THEN RaiseIn(c, infer)
    ELSE Composite(self, Logged(c, "segment"), WithMask(c.image))

\* a custom background whose fetch fails is left out
AfterDownloadBg_Degrade(self, c) ==
    LET got == HttpGet(c.background_url)
        f == Logged(c, "fetch_bg")
    IN IF got.exc # None \/ ~Decodable(got.content) THEN SaveResult(self, f, c.image)
       ELSE SaveResult(self, Logged(f, "composite"),
                       PasteOver(c.image, ImageBackdrop(got.content)))

\* the step after `await self._download_image(background_url)`
\* (birefnet_service.py:160-195)
AfterDownloadBg(self, c) ==
    LET got == HttpGet(c.background_url)
        f == Logged(c, "fetch_bg")
    IN IF got.exc # None THEN RaiseIn(f, got.exc)
       ELSE IF ~Decodable(got.content) THEN RaiseIn(f, "UnidentifiedImageError")
       ELSE SaveResult(self, Logged(f, "composite"), PasteOver(c.image, ImageBackdrop(got.content)))

\* an except clause that catches transport errors only
HandlesRemoteFailure_TransportOnly(e) == e = "ConnectError"

\* autobg_service.py:110 `except httpx.HTTPError`
HandlesRemoteFailure(e) == IsHTTPError(e)

\* the step after `await client.post(...)` (autobg_service.py:93-128);
\* outcome: how the POST ended
AfterPost(c, outcome) ==
    LET f == [Logged(c, "post") EXCEPT !.response = outcome]
        original == RawData(c.image_bytes)
    IN CASE outcome \in {"ConnectError", "HTTPStatusError"} ->
              IF HandlesRemoteFailure(outcome)
              THEN StoreProcessed(f, original)
              ELSE RaiseIn(f, outcome)
         [] outcome = "body_not_json" -> RaiseIn(f, "JSONDecodeError")
         [] outcome = "body_number" -> RaiseIn(f, "TypeError")
         [] outcome = "body_image" ->
              StoreProcessed(f, RemoteData(c.image_bytes, BgSetting(c)))
         [] outcome = "body_image_bad_base64" -> RaiseIn(f, "binascii.Error")
         [] outcome = "body_url_b" ->
              Continue([f EXCEPT !.pc = "download_result", !.result_url = "b"])
         [] outcome = "body_url_x" ->
              Continue([f EXCEPT !.pc = "download_result", !.result_url = "x"])
         [] OTHER -> RaiseIn(f, "ValueError")

\* the step after `await self._download_image(result["url"])`, still inside
\* the try block (autobg_service.py:104-128)
AfterDownloadResult(c) ==
    LET got == HttpGet(c.result_url)
        f == Logged(c, "fetch_result")
    IN IF got.exc = None THEN StoreProcessed(f, RawData(got.content))
       ELSE IF HandlesRemoteFailure(got.exc)
       THEN StoreProcessed(f, RawData(c.image_bytes))
       ELSE RaiseIn(f, got.exc)

\* a segmentation that demotes the instance to the fallback when it fails
SelfAfterSegment_Demote(self, infer) ==
    IF infer = "ok" THEN self
    ELSE [self EXCEPT !.model = None, !.fallback_session = "u2net"]

\* birefnet_service.py:91-123: the instance after _birefnet_remove_bg; the
\* method assigns no attribute of self
SelfAfterSegment(self, infer) == self

(***************************************************************************)
(* Steps of the service method in progress                                 *)
(***************************************************************************)
Apply(eff, self) ==
    /\ call' = eff.call
    /\ files' = files \cup eff.write
    /\ nextId' = nextId + eff.ids
    /\ inst' = self
    /\ reported' = IF eff.call.pc = "returned" /\ eff.call.method = "remove_background"
                   THEN reported \cup {eff.call.ret.model}
                   ELSE reported
    /\ UNCHANGED <<task, batch>>
    /\ UNCHANGED nonServiceVars

Download ==
    /\ call.pc = "download"
    /\ Apply(AfterDownload(inst, call), inst)

Segment ==
    /\ call.pc = "segment"
    /\ \E infer \in InferOutcomes :
          Apply(AfterSegment(inst, call, infer), SelfAfterSegment(inst, infer))

DownloadBg ==
    /\ call.pc = "download_bg"
    /\ Apply(AfterDownloadBg(inst, call), inst)

Post ==
    /\ call.pc = "post"
    /\ \E outcome \in PostOutcomes : Apply(AfterPost(call, outcome), inst)

DownloadResult ==
    /\ call.pc = "download_result"
    /\ Apply(AfterDownloadResult(call), inst)

(***************************************************************************)
(* Process router: the single-image endpoints (app/routers/process.py)     *)
(***************************************************************************)
\* how many single-image requests one behaviour serves
MaxRequests == 2

NoHttp == [status |-> 0, id |-> <<>>, state |-> None, original_url |-> None,
           processed_url |-> <<>>]

\* a parsed request body; fields_set: the fields the client sent
NoBody == [image_url |-> None, background_type |-> None,
           background_color |-> NoColor, background_url |-> None,
           options |-> EmptyDict, fields_set |-> {}]

IdleTask == [kind |-> None, pc |-> "idle", n |-> 0, request |-> NoBody,
             response |-> NoHttp]

\* process.py:45-54, 88-93, 177-180: the service call the handler awaits
HandlerCall(self, endpoint, req) ==
    CASE endpoint = "enhance" -> CallEnhance(req.image_url, req.options)
      [] endpoint = "remove_background" ->
            CallRemoveBackground(req.image_url, req.background_type,
                                 req.background_color, req.background_url)
      [] OTHER ->
            CallShowroom(self, req.image_url,
                         IF req.background_type \in {None, ""} THEN "indoor"
                         ELSE req.background_type)

\* process.py:56-67, 95-106, 182-193: ProcessResponse, or HTTPException(500)
\* for any Exception of the service call
HandlerResponse(req, c) ==
    IF c.pc = "raised"
    THEN [NoHttp EXCEPT !.status = 500]
    ELSE [status |-> 200, id |-> c.ret.id, state |-> "completed",
          original_url |-> req.image_url, processed_url |-> c.ret.url]

\* request bodies
Color112233 == Hex("1","1","2","2","3","3")
ColorRed == <<"r","e","d">>

BgBody(url, type, color, bg_url) ==
    [NoBody EXCEPT !.image_url = url, !.background_type = type,
                   !.background_color = color, !.background_url = bg_url]

EnhanceBody(url, auto_color, denoise, sharpen) ==
    [NoBody EXCEPT !.image_url = url,
                   !.options = [auto_color |-> auto_color, denoise |-> denoise,
                                sharpen |-> sharpen, contrast |-> TRUE]]

\* schemas.py:41-46 EnhancementRequest: the JSON body with the defaults of
\* the fields left out
ParseEnhancementRequest(json) ==
    [EnhanceBody(json.image_url,
                 DictGet(json, "auto_color", TRUE),
                 DictGet(json, "denoise", TRUE),
                 DictGet(json, "sharpen", TRUE))
        EXCEPT !.fields_set = DOMAIN json]

\* JSON bodies sent to POST /enhance
EnhanceJson ==
    { [image_url |-> "a"],
      [image_url |-> "a", denoise |-> FALSE],
      [image_url |-> "a", denoise |-> TRUE],
      [image_url |-> "a", auto_color |-> FALSE, denoise |-> FALSE, sharpen |-> FALSE],
      [image_url |-> "j"],
      [image_url |-> "x"] }

Endpoints == {"enhance", "remove_background", "virtual_showroom"}

Bodies(endpoint) ==
    CASE endpoint = "enhance" ->
            { ParseEnhancementRequest(json) : json \in EnhanceJson }
      [] endpoint = "remove_background" ->
            { BgBody("a", "transparent", NoColor, None),
              BgBody("a", "solid", Color112233, None),
              BgBody("a", "solid", NoColor, None),
              BgBody("a", "solid", ColorRed, None),
              BgBody("a", "custom", NoColor, "b"),
              BgBody("a", "custom", NoColor, "x"),
              BgBody("a", "custom", NoColor, "j"),
              BgBody("a", "custom", NoColor, None),
              BgBody("a", "white", NoColor, None),
              BgBody("a", "indoor", NoColor, None),
              BgBody("a", None, NoColor, None),
              BgBody("j", "transparent", NoColor, None),
              BgBody("x", "transparent", NoColor, None),
              BgBody("x", "custom", NoColor, "b") }
      [] OTHER ->
            { BgBody("a", "indoor", NoColor, None),
              BgBody("a", "transparent", NoColor, None),
              BgBody("a", None, NoColor, None),
              BgBody("a", "nowhere", NoColor, None),
              BgBody("x", "indoor", NoColor, None) }

\* a request arrives at one of the single-image endpoints
StartRequest ==
    /\ task.pc \in {"idle", "done"}
    /\ task.kind # "batch"
    /\ task.n < MaxRequests
    /\ \E endpoint \in Endpoints :
         \E req \in Bodies(endpoint) :
            /\ task' = [kind |-> endpoint, pc |-> "awaiting", n |-> task.n + 1,
                        request |-> req, response |-> NoHttp]
            /\ call' = HandlerCall(inst, endpoint, req)
    /\ UNCHANGED <<inst, batch, files, reported, nextId>>
    /\ UNCHANGED nonServiceVars

\* the awaited service call has ended: the handler answers
Respond ==
    /\ task.pc = "awaiting"
    /\ call.pc \in {"returned", "raised"}
    /\ task' = [task EXCEPT !.pc = "done",
                            !.response = HandlerResponse(task.request, call)]
    /\ UNCHANGED <<inst, call, batch, files, reported, nextId>>
    /\ UNCHANGED nonServiceVars

(***************************************************************************)
(* batch_process (birefnet_service.py:270-307, autobg_service.py:197-234)  *)
(* run as the background task of POST /batch (process.py:109-140)          *)
(***************************************************************************)
\* longest image_urls list of a batch
MaxUrls == 2

NoEntry == [image_url |-> None, status |-> None, processed_url |-> <<>>,
            error |-> None]

NoBatchResult == [job_id |-> <<>>, status |-> None, results |-> <<>>]

\* the locals of batch_process: i, j are the positions of the two for
\* loops (j = 0: the try block of image i has not begun); raisedOn
\* observes the images on which a service call raised, calls the service
\* calls that returned
NoBatch == [pc |-> "none", job_id |-> <<>>, image_urls |-> <<>>,
            operations |-> <<>>, i |-> 0, j |-> 0, result |-> NoEntry,
            results |-> <<>>, ret |-> NoBatchResult, exc |-> None,
            raisedOn |-> {}, calls |-> <<>>]

\* an except clause that catches HTTP errors only
IsException_HTTPOnly(e) == IsHTTPError(e)

\* `except Exception`: every exception the service calls raise derives from it
IsException(e) ==
    e \in { "ConnectError", "HTTPStatusError", "UnidentifiedImageError",
            "ValueError", "TypeError", "JSONDecodeError", "binascii.Error",
            "RuntimeError", "AttributeError" }

KnownOperations == {"enhance", "remove_background", "showroom"}

\* the service call of one operation, with the defaults of its parameters
BatchCall(self, op, url) ==
    CASE op = "enhance" -> CallEnhance(url, EmptyDict)
      [] op = "remove_background" ->
            CallRemoveBackground(url, "transparent", NoColor, None)
      [] OTHER -> CallShowroom(self, url, "indoor")

\* run batch_process up to its next await or its return
RECURSIVE BatchAdvance(_)
BatchAdvance(b) ==
    IF b.i > Len(b.image_urls)
    THEN [b EXCEPT !.pc = "returned",
                   !.ret = [job_id |-> b.job_id, status |-> "completed",
                            results |-> b.results]]
    ELSE IF b.j = 0
    THEN BatchAdvance([b EXCEPT !.j = 1,
                                !.result = [NoEntry EXCEPT
                                               !.image_url = b.image_urls[b.i],
                                               !.status = "completed"]])
    ELSE IF b.j > Len(b.operations)
    THEN BatchAdvance([b EXCEPT !.results = Append(@, b.result),
                                !.i = @ + 1, !.j = 0])
    ELSE IF b.operations[b.j] \in KnownOperations
    THEN [b EXCEPT !.pc = "awaiting"]
    ELSE BatchAdvance([b EXCEPT !.j = @ + 1])

\* a batch that keeps the output of the first operation of an image
BatchAbsorb_KeepFirst(b, c) ==
    IF c.pc = "returned"
    THEN [b EXCEPT !.pc = "running",
                   !.result.processed_url = IF @ = <<>> THEN c.ret.url ELSE @,
                   !.j = @ + 1]
    ELSE [b EXCEPT !.pc = "running",
                   !.results = Append(@, [NoEntry EXCEPT
                                             !.image_url = b.image_urls[b.i],
                                             !.status = "failed",
                                             !.error = c.exc]),
                   !.i = @ + 1, !.j = 0]

\* the awaited service call has ended
BatchAbsorb(b, c) ==
    IF c.pc = "returned"
    THEN [b EXCEPT !.pc = "running", !.result.processed_url = c.ret.url, !.j = @ + 1]
    ELSE IF IsException(c.exc)
    THEN [b EXCEPT !.pc = "running",
                   !.results = Append(@, [NoEntry EXCEPT
                                             !.image_url = b.image_urls[b.i],
                                             !.status = "failed",
                                             !.error = c.exc]),
                   !.i = @ + 1, !.j = 0]
    ELSE [b EXCEPT !.pc = "raised", !.exc = c.exc]

UrlLists == UNION {[1..n -> {"a", "j", "x"}] : n \in 0..MaxUrls}

OperationLists ==
    { <<>>, <<"enhance">>, <<"remove_background">>, <<"showroom">>, <<"crop">>,
      <<"enhance", "remove_background">>, <<"remove_background", "enhance">>,
      <<"crop", "showroom">> }

\* an endpoint that runs the batch up to its first await before it answers
BatchSubmit_Awaited ==
    /\ task.pc = "idle"
    /\ \E urls \in UrlLists, ops \in OperationLists :
         LET b == BatchAdvance([NoBatch EXCEPT !.pc = "running", !.job_id = Uuid(nextId),
                                               !.image_urls = urls, !.operations = ops,
                                               !.i = 1])
         IN /\ batch' = b
            /\ call' = IF b.pc = "awaiting"
                       THEN BatchCall(inst, b.operations[b.j], b.image_urls[b.i])
                       ELSE call
            /\ task' = [IdleTask EXCEPT
                           !.kind = "batch", !.pc = "scheduled", !.n = task.n + 1,
                           !.response = [status |-> 200, id |-> Uuid(nextId),
                                         state |-> "processing",
                                         original_url |-> IF urls # <<>> THEN urls[1] ELSE "",
                                         processed_url |-> <<>>]]
    /\ nextId' = nextId + 1
    /\ UNCHANGED <<inst, files, reported>>
    /\ UNCHANGED nonServiceVars

\* process.py:109-140: POST /batch schedules batch_process and answers
BatchSubmit ==
    /\ task.pc = "idle"
    /\ \E urls \in UrlLists, ops \in OperationLists :
         /\ batch' = [NoBatch EXCEPT !.pc = "running", !.job_id = Uuid(nextId),
                                     !.image_urls = urls, !.operations = ops,
                                     !.i = 1]
         /\ task' = [IdleTask EXCEPT
                        !.kind = "batch", !.pc = "scheduled", !.n = task.n + 1,
                        !.response = [status |-> 200, id |-> Uuid(nextId),
                                      state |-> "processing",
                                      original_url |-> IF urls # <<>> THEN urls[1] ELSE "",
                                      processed_url |-> <<>>]]
    /\ nextId' = nextId + 1
    /\ UNCHANGED <<inst, call, files, reported>>
    /\ UNCHANGED nonServiceVars

\* batch_process runs from where it stands to its next await or its end
BatchStep ==
    /\ task.kind = "batch"
    /\ batch.pc \in {"running", "awaiting"}
    /\ batch.pc = "awaiting" => call.pc \in {"returned", "raised"}
    /\ LET b1 == IF batch.pc = "awaiting" THEN BatchAbsorb(batch, call) ELSE batch
           b2 == IF b1.pc = "raised" THEN b1 ELSE BatchAdvance(b1)
       IN /\ batch' = [b2 EXCEPT
                          !.raisedOn =
                              IF batch.pc = "awaiting" /\ call.pc = "raised"
                              THEN @ \cup {batch.i} ELSE @,
                          !.calls =
                              IF batch.pc = "awaiting" /\ call.pc = "returned"
                              THEN Append(@, [i |-> batch.i, entry |-> call.entry,
                                              image_url |-> call.image_url,
                                              url |-> call.ret.url])
                              ELSE @]
          /\ call' = IF b2.pc = "awaiting"
                     THEN BatchCall(inst, b2.operations[b2.j], b2.image_urls[b2.i])
                     ELSE call
          /\ task' = IF b2.pc \in {"returned", "raised"}
                     THEN [task EXCEPT !.pc = "done"]
                     ELSE [task EXCEPT !.pc = "running"]
    /\ UNCHANGED <<inst, files, reported, nextId>>
    /\ UNCHANGED nonServiceVars

(***************************************************************************)
(* GET /status/{job_id} (process.py:143-158)                               *)
(***************************************************************************)
NoStatus == [id |-> <<>>, status |-> None, progress |-> 0, total |-> 0,
             completed |-> 0, failed |-> 0, results |-> <<>>]

\* a status query that reports the batch it is asked about
get_process_status_Live(job_id) ==
    IF job_id = batch.job_id /\ batch.pc = "returned"
    THEN [id |-> job_id, status |-> "completed", progress |-> 100,
          total |-> Len(batch.ret.results),
          completed |-> Cardinality({k \in 1..Len(batch.ret.results) :
                                       batch.ret.results[k].status = "completed"}),
          failed |-> Cardinality({k \in 1..Len(batch.ret.results) :
                                    batch.ret.results[k].status = "failed"}),
          results |-> batch.ret.results]
    ELSE [id |-> job_id, status |-> "processing", progress |-> 50, total |-> 10,
          completed |-> 5, failed |-> 0, results |-> <<>>]

\* process.py:143-158 get_process_status
get_process_status(job_id) ==
    [id |-> job_id, status |-> "processing", progress |-> 50, total |-> 10,
     completed |-> 5, failed |-> 0, results |-> <<>>]

\* the job ids asked about: the one POST /batch hands out first, and one
\* that no batch carries
JobIds == {Uuid(0), Uuid(99)}

GetStatus ==
    /\ \E job_id \in JobIds : statusResp' = get_process_status(job_id)
    /\ UNCHANGED nonStatusVars

StatusRest == statusResp = NoStatus

\* the option dicts enhance_image is called with directly: none, or the
\* four toggles
DirectOptions ==
    {EmptyDict} \cup [{"auto_color", "contrast", "denoise", "sharpen"} -> BOOLEAN]

\* the calls made on a backend directly, not through the router
DirectCalls(self) ==
    { CallEnhance(url, options) : url \in {"a", "j", "x"}, options \in DirectOptions }
    \cup { CallRemoveBackground(b.image_url, b.background_type, b.background_color,
                                b.background_url) : b \in Bodies("remove_background") }
    \cup { CallShowroom(self, "a", type) : type \in {"indoor", "garage", "nowhere"} }

\* one of the three methods is called on the backend
DirectCall ==
    /\ call.pc = "none"
    /\ \E c \in DirectCalls(inst) : call' = c
    /\ UNCHANGED <<inst, task, batch, files, reported, nextId>>
    /\ UNCHANGED nonServiceVars

\* the backend objects the constructors return (BiRefNetService with the
\* model and with the fallback, AutoBGService, RembgService).  AutoBGService is built
\* from a settings object that has the attribute its __init__ reads.
ServiceInstances ==
    { r.self : r \in { x \in { BiRefNetService_init(1, p, "ok", "ok", "ok") :
                                  p \in [torch : {TRUE}, cuda : {FALSE},
                                         transformers : BOOLEAN, rembg : {TRUE}] }
                              \cup { AutoBGService_init(1, [AUTOBG_API_KEY |-> "key"]),
                                     RembgService_init(1, [torch |-> TRUE, cuda |-> FALSE,
                                                           transformers |-> TRUE,
                                                           rembg |-> TRUE], "ok") } :
                          x.exc = None } }

\* process.py:17-26: the backends get_image_service hands to the router
RoutedInstances == {i \in ServiceInstances : i.kind \in {"birefnet", "autobg"}}

ServiceInit ==
    /\ inst \in RoutedInstances
    /\ task = IdleTask
    /\ call = NoCall
    /\ batch = NoBatch
    /\ files = {}
    /\ reported = {}

\* any backend, before it is called
DirectInit ==
    /\ inst \in ServiceInstances
    /\ task = IdleTask
    /\ call = NoCall
    /\ batch = NoBatch
    /\ files = {}
    /\ reported = {}

\* no request has been made of the service methods
ServiceRest ==
    /\ inst = NoObject
    /\ task = IdleTask
    /\ call = NoCall
    /\ batch = NoBatch
    /\ files = {}
    /\ reported = {}

(***************************************************************************)
(* Inputs of the upload router                                             *)
(***************************************************************************)
Users == {"u1", "u2"}

FileNames ==
    { <<>>,
      <<"a", ".", "p", "n", "g">>,
      <<"a", ".", "J", "P", "G">>,
      <<"a", ".", "w", "e", "b", "p">>,
      <<"j", "p", "e", "g">>,
      <<"a", ".", "p", "n", "g", ".", "p", "h", "p">> }

Pad4 == <<0, 0, 0, 0>>
GIF_SIG == <<71, 73, 70, 56>>

\* leading bytes of the uploaded bodies: each signature, whole, cut short and
\* damaged, and the WEBP tag at offset 8 with and without RIFF in front
Heads ==
    { <<>>,
      JPEG_SIG,
      <<255, 216, 0>>,
      PNG_SIG,
      <<137, 80, 78, 71, 13, 10, 26, 0>>,
      RIFF_SIG,
      RIFF_SIG \o Pad4 \o WEBP_TAG \o <<0>>,
      GIF_SIG \o Pad4 \o WEBP_TAG \o <<0>>,
      GIF_SIG \o Pad4 \o WEBP_TAG,
      GIF_SIG \o Pad4 \o <<87, 69, 66, 0>> \o <<0>> }

\* a body is its leading bytes; a long body is given by 13 leading bytes and a length
Sizes(h) ==
    {Len(h)} \cup (IF h = RIFF_SIG \o Pad4 \o WEBP_TAG \o <<0>>
                   THEN {MaxFileSize, MaxFileSize + 1} ELSE {})

UploadFiles ==
    UNION { { [filename |-> n, head |-> h, size |-> z] : n \in FileNames, z \in Sizes(h) } :
            h \in Heads }

UploadInit ==
    /\ bucket = {}
    /\ upReq = NoRequest
    /\ upResp = NoResponse
    /\ delResp = NoDeletion
    /\ multiResp = NoMulti

UploadImage ==
    \E file \in UploadFiles, user \in Users, put_ok \in BOOLEAN :
        upload_image(file, user, put_ok)

\* the path parameter of DELETE /{image_id}: an id upload_image handed out,
\* bare and followed by the extension of its key
DeleteIds ==
    UNION { {<<Uuid(n)>>, <<Uuid(n), ".", "jpg">>} : n \in 0..MaxUploads }

DeleteImage ==
    \E image_id \in DeleteIds, user \in Users, del_ok \in BOOLEAN :
        delete_image(image_id, user, del_ok)

\* the files of a multiple upload: one that passes every validation and
\* one failing each validation
MultiFiles ==
    { [filename |-> <<"a", ".", "J", "P", "G">>, head |-> JPEG_SIG, size |-> 3],
      [filename |-> <<>>, head |-> JPEG_SIG, size |-> 3],
      [filename |-> <<"a", ".", "p", "n", "g", ".", "p", "h", "p">>,
       head |-> PNG_SIG, size |-> 8],
      [filename |-> <<"a", ".", "w", "e", "b", "p">>,
       head |-> RIFF_SIG \o Pad4 \o WEBP_TAG \o <<0>>, size |-> MaxFileSize + 1],
      [filename |-> <<"a", ".", "p", "n", "g">>, head |-> <<255, 216, 0>>, size |-> 3] }

\* POST /upload with one of these files
UploadSample ==
    \E file \in MultiFiles, user \in Users, put_ok \in BOOLEAN :
        upload_image(file, user, put_ok)

\* a request of n files: copies of one file, the last replaced by another
Repeated(n, f, g) == [k \in 1..n |-> IF k = n THEN g ELSE f]

FileLists ==
    UNION {[1..n -> MultiFiles] : n \in 0..2}
        \cup {Repeated(n, f, g) : n \in {MaxFiles, MaxFiles + 1},
                                  f \in {m \in MultiFiles : m.head = JPEG_SIG},
                                  g \in {m \in MultiFiles : m.head = PNG_SIG}}

UploadMultiple ==
    \E fs \in FileLists, user \in Users, failing \in {{}, {1}} :
        upload_multiple_images(fs, user, failing)

\* no worker has asked for a backend
SelectRest ==
    /\ environ = [JWT_SECRET |-> "secret"]
    /\ pkgs = [torch |-> TRUE, cuda |-> FALSE, transformers |-> TRUE, rembg |-> TRUE]
    /\ threads = [t \in Threads |-> Idle]
    /\ service_instance = [m \in Modules |-> NoObject]
    /\ constructed = <<>>

InitUpload == UploadInit /\ nextId = 0 /\ SelectRest /\ ServiceRest /\ CanvasRest /\ StatusRest

NextUpload == UploadImage

SpecUpload == InitUpload /\ [][NextUpload]_vars

NextDelete == UploadSample \/ DeleteImage

SpecDelete == InitUpload /\ [][NextDelete]_vars

NextMulti == UploadMultiple

SpecMulti == InitUpload /\ [][NextMulti]_vars

InitSelect == UploadInit /\ nextId = 0 /\ SelectInit /\ ServiceRest /\ CanvasRest /\ StatusRest

NextSelect ==
    \E t \in Threads :
        \/ Call(t)
        \/ Select(t)
        \/ Check(t)
        \/ Construct(t)
        \/ Assign(t)
        \/ AccessorReturn(t)

SpecSelect == InitSelect /\ [][NextSelect]_vars

InitService == UploadInit /\ nextId = 0 /\ SelectRest /\ ServiceInit /\ CanvasRest /\ StatusRest

\* the process router: a run of single-image requests, or one batch job
NextService ==
    \/ StartRequest
    \/ BatchSubmit
    \/ BatchStep
    \/ Download
    \/ Segment
    \/ DownloadBg
    \/ Post
    \/ DownloadResult
    \/ Respond

SpecService == InitService /\ [][NextService]_vars

\* one batch job and status queries at any moment of it
NextStatus ==
    \/ BatchSubmit
    \/ BatchStep
    \/ Download
    \/ Segment
    \/ Post
    \/ DownloadResult
    \/ GetStatus

SpecStatus == InitService /\ [][NextStatus]_vars

InitDirect == UploadInit /\ nextId = 0 /\ SelectRest /\ DirectInit /\ CanvasRest /\ StatusRest

\* one direct call of a service method on any backend
NextDirect ==
    \/ DirectCall
    \/ Download
    \/ Segment
    \/ DownloadBg
    \/ Post
    \/ DownloadResult

SpecDirect == InitDirect /\ [][NextDirect]_vars

InitComposite == UploadInit /\ nextId = 0 /\ SelectRest /\ ServiceRest /\ CanvasInit /\ StatusRest

NextComposite == CompositeSolid

SpecComposite == InitComposite /\ [][NextComposite]_vars

(***************************************************************************)
(* Upload validation                                                       *)
(***************************************************************************)
Answered == upResp.status # 0
Rejected == upResp.status = 400
Accepted == upResp.status = 200
NothingStored == bucket = upReq.before

\* sig is a prefix of content, byte by byte
BeginsWith(content, sig) ==
    /\ Len(sig) <= Len(content)
    /\ \A i \in 1..Len(sig) : content[i] = sig[i]

\* bytes 8..11 of content spell WEBP
TaggedWebp(content) ==
    /\ Len(content) >= 12
    /\ <<content[9], content[10], content[11], content[12]>> = <<87, 69, 66, 80>>

\* the magic number of the format a declared extension names
MatchesDeclared(req) ==
    LET e == DeclaredExtension(req.filename) IN
    \/ e \in {<<"j","p","g">>, <<"j","p","e","g">>} /\ BeginsWith(req.head, JPEG_SIG)
    \/ e = <<"p","n","g">> /\ BeginsWith(req.head, PNG_SIG)
    \/ /\ e = <<"w","e","b","p">>
       /\ BeginsWith(req.head, RIFF_SIG)
       /\ TaggedWebp(req.head)

\* the content carries one of the byte patterns the router looks for
Recognised(req) ==
    \/ BeginsWith(req.head, JPEG_SIG)
    \/ BeginsWith(req.head, PNG_SIG)
    \/ BeginsWith(req.head, RIFF_SIG)
    \/ req.size > 12 /\ TaggedWebp(req.head)

\* C9 as stated: every upload whose content signature does not match the
\* declared extension is rejected with 400 and stores nothing.
C9_Original ==
    (Answered /\ ~MatchesDeclared(upReq)) => (Rejected /\ NothingStored)

\* C9 amended: every upload whose content carries none of the recognised
\* signatures is rejected with 400 and stores nothing, whatever its declared
\* extension; a recognised signature that differs from the declared
\* extension is not a reason for rejection.
C9_UnrecognisedRejected ==
    /\ (Answered /\ ~Recognised(upReq)) => (Rejected /\ NothingStored)
    /\ (Answered /\ Rejected /\ upResp.detail = "Invalid image content")
          => ~Recognised(upReq)

C9_Witness ==
    /\ Rejected
    /\ upResp.detail = "Invalid image content"
    /\ DeclaredExtension(upReq.filename) = <<"j","p","g">>
    /\ upReq.head = <<255, 216, 0>>
    /\ upReq.before # {}
    /\ NothingStored

\* the extension the content's signature stands for
ContentExtension(req) ==
    IF BeginsWith(req.head, JPEG_SIG) THEN "jpg"
    ELSE IF BeginsWith(req.head, PNG_SIG) THEN "png"
    ELSE "webp"

\* C10: an accepted upload is keyed <user>/<id>.<ext> with ext taken from the
\* detected content signature (jpeg -> jpg, png -> png, webp -> webp), never
\* from the declared name, the only object it adds is under that key, and
\* JPEG content declared as .png is accepted.
C10_KeyFromContent ==
    /\ Accepted =>
          /\ upResp.key = <<upReq.user, "/", upResp.id, ".", ContentExtension(upReq)>>
          /\ bucket \ upReq.before \subseteq {upResp.key}
    /\ ( /\ Answered
         /\ DeclaredExtension(upReq.filename) = <<"p","n","g">>
         /\ BeginsWith(upReq.head, JPEG_SIG)
         /\ upReq.size <= MaxFileSize ) => Accepted

C10_Witness ==
    /\ Accepted
    /\ DeclaredExtension(upReq.filename) = <<"p","n","g">>
    /\ BeginsWith(upReq.head, JPEG_SIG)
    /\ upResp.key[5] = "jpg"
    /\ upResp.key \in bucket

\* bytes 0..3 are RIFF and bytes 8..11 are WEBP
IsWebp(content) == BeginsWith(content, RIFF_SIG) /\ TaggedWebp(content)

\* C11: content is detected as webp exactly when it starts with RIFF and has
\* WEBP at offset 8; RIFF without the tag, and the tag without RIFF, are
\* not taken for an image unless the content is JPEG or PNG.
C11_WebpExact ==
    /\ (Accepted /\ upResp.key[5] = "webp") => IsWebp(upReq.head)
    /\ ( /\ Answered
         /\ ~IsWebp(upReq.head)
         /\ ~BeginsWith(upReq.head, JPEG_SIG)
         /\ ~BeginsWith(upReq.head, PNG_SIG) ) => Rejected

\* the three validations of an upload, as the router's contract states them
ValidUpload(req) ==
    /\ DeclaredExtension(req.filename) \in
          {<<"j","p","g">>, <<"j","p","e","g">>, <<"p","n","g">>, <<"w","e","b","p">>}
    /\ req.size <= 10485760
    /\ Recognised(req)

\* C12: storage.upload is called exactly when the declared extension is
\* allowed, the content is at most 10 MiB and a signature is recognised;
\* every other upload is answered 400 and leaves the bucket as it was.
C12_UploadIffValid ==
    Answered =>
        /\ Accepted <=> ValidUpload(upReq)
        /\ upResp.key # <<>> <=> ValidUpload(upReq)
        /\ ~ValidUpload(upReq) => (Rejected /\ NothingStored)

C12_Witness ==
    /\ Accepted
    /\ upReq.size = 10485760
    /\ upResp.key \in bucket
    /\ upReq.before = {}

(***************************************************************************)
(* Backend selection and construction                                      *)
(***************************************************************************)
Finished(t) == Frame(t).pc \in {"raised", "returned"}

CredentialConfigured ==
    /\ "AUTOBG_API_KEY" \in DOMAIN environ
    /\ environ["AUTOBG_API_KEY"] # ""

\* C5 as stated: get_image_service returns the remote backend when the remote
\* credential is configured and the local backend when it is not, and never
\* fails for a configuration the Settings object can load.
C5_SelectorReturnsBackend ==
    \A t \in Threads :
        (Frame(t).fn = "get_image_service" /\ Finished(t)) =>
            /\ Frame(t).pc = "returned"
            /\ Frame(t).result.kind =
                  IF CredentialConfigured THEN "autobg" ELSE "birefnet"

\* the accessor calls that returned, and what they returned
ReturnedBy(m) ==
    { Frame(t).result : t \in { u \in Threads : Frame(u).mod = m /\ Frame(u).pc = "returned" } }

ConstructedOf(m) == { i \in 1..Len(constructed) : constructed[i].kind = m }

\* C6 as stated: in every interleaving of accessor calls the backend is
\* constructed at most once and every call returns the same instance.
C6_ConstructedOnce ==
    \A m \in Modules :
        /\ Cardinality(ConstructedOf(m)) <= 1
        /\ Cardinality(ReturnedBy(m)) <= 1

\* C7 as stated: however the primary model fails to initialise, constructing
\* the local backend does not raise; it ends with a usable lesser variant.
C7_ConstructionNeverRaises ==
    \A t \in Threads :
        (Frame(t).fn = "get_birefnet_service" /\ Finished(t)) =>
            /\ Frame(t).pc = "returned"
            /\ Frame(t).result.kind = "birefnet"
            /\ Frame(t).result.model = None => Frame(t).result.fallback_session # None

(***************************************************************************)
(* Service methods and batch processing                                    *)
(***************************************************************************)
BatchReturned == task.kind = "batch" /\ batch.pc = "returned"

\* C1: batch_process never raises; it returns status "completed" and one
\* entry per image URL, in input order; entry k is "failed" (and carries an
\* error) exactly when a service call on image k raised, so a failure
\* leaves every other entry as it would have been.
C1_BatchResults ==
    /\ batch.pc # "raised"
    /\ BatchReturned =>
         /\ batch.ret.status = "completed"
         /\ Len(batch.ret.results) = Len(batch.image_urls)
         /\ \A k \in 1..Len(batch.ret.results) :
               LET entry == batch.ret.results[k] IN
               /\ entry.image_url = batch.image_urls[k]
               /\ entry.status \in {"completed", "failed"}
               /\ entry.status = "failed" <=> k \in batch.raisedOn
               /\ entry.status = "failed" => entry.error # None
               /\ entry.status = "completed" => entry.error = None

C1_Witness ==
    /\ BatchReturned
    /\ Len(batch.image_urls) = 2
    /\ batch.raisedOn = {1}
    /\ batch.ret.results[1].status = "failed"
    /\ batch.ret.results[2].status = "completed"
    /\ batch.ret.results[2].processed_url # <<>>

\* the method a batch operation stands for
MethodOf(op) ==
    CASE op = "enhance" -> "enhance_image"
      [] op = "remove_background" -> "remove_background"
      [] op = "showroom" -> "virtual_showroom"
      [] OTHER -> None

Recognised_Op(op) == MethodOf(op) # None

\* the service calls of the batch that returned for image k, in order
CallsOf(k) == LET Mine(c) == c.i = k IN SelectSeq(batch.calls, Mine)

\* C19: batch_process calls every operation of an image with the image's
\* original URL, in the order given, and the entry's processed_url is the
\* URL returned by the last recognised operation.
C19_OperationsOnOriginal ==
    /\ (task.kind = "batch" /\ batch.pc = "awaiting") =>
          /\ call.image_url = batch.image_urls[batch.i]
          /\ call.entry = MethodOf(batch.operations[batch.j])
    /\ \A n \in 1..Len(batch.calls) :
          batch.calls[n].image_url = batch.image_urls[batch.calls[n].i]
    /\ BatchReturned =>
          \A k \in 1..Len(batch.ret.results) :
              LET entry == batch.ret.results[k]
                  mine == CallsOf(k)
                  expected == SelectSeq(batch.operations, Recognised_Op)
              IN entry.status = "completed" =>
                    /\ Len(mine) = Len(expected)
                    /\ \A n \in 1..Len(mine) : mine[n].entry = MethodOf(expected[n])
                    /\ entry.processed_url =
                          IF mine = <<>> THEN <<>> ELSE mine[Len(mine)].url

C19_Witness ==
    /\ BatchReturned
    /\ batch.operations = <<"enhance", "remove_background">>
    /\ batch.ret.results # <<>>
    /\ batch.ret.results[1].status = "completed"
    /\ Len(CallsOf(1)) = 2
    /\ CallsOf(1)[1].url # CallsOf(1)[2].url
    /\ batch.ret.results[1].processed_url = CallsOf(1)[2].url

\* what POST /batch has answered
BatchAnswer == task.response

\* the batch has been answered and its background task has not run yet
BatchScheduled == task.kind = "batch" /\ task.pc = "scheduled"

\* C20: POST /batch answers status "processing" with a job id no other
\* object carries; when it answers, the batch is scheduled and no image has
\* been processed; a scheduled batch is never withdrawn.
C20_SubmitOnlySchedules ==
    /\ [](task.kind = "batch" =>
             /\ BatchAnswer.status = 200
             /\ BatchAnswer.state = "processing"
             /\ BatchAnswer.processed_url = <<>>
             /\ BatchAnswer.id = batch.job_id
             /\ BatchAnswer.id # call.ret.id
             /\ \A f \in files : f.name[1] # BatchAnswer.id)
    /\ [](BatchScheduled =>
             /\ batch.pc = "running"
             /\ batch.i = 1 /\ batch.j = 0
             /\ batch.results = <<>> /\ batch.calls = <<>>
             /\ call = NoCall
             /\ files = {})
    /\ [][task.kind = "batch" =>
             /\ task'.kind = "batch"
             /\ task'.response = task.response
             /\ batch'.job_id = batch.job_id
             /\ batch'.image_urls = batch.image_urls
             /\ batch'.operations = batch.operations
             /\ batch'.pc # "none"]_vars

C20_Witness ==
    /\ BatchScheduled
    /\ Len(batch.image_urls) = 2
    /\ batch.operations = <<"remove_background", "enhance">>
    /\ BatchAnswer.state = "processing"
    /\ BatchAnswer.original_url = batch.image_urls[1]

StatusAnswered == statusResp # NoStatus

\* C21: GET /status answers the same placeholder for every job id at every
\* moment, whether the job was submitted, is running or has returned, and
\* whatever its entries are.
C21_StatusIsPlaceholder ==
    StatusAnswered =>
        /\ statusResp.status = "processing"
        /\ statusResp.progress = 50
        /\ statusResp.total = 10
        /\ statusResp.completed = 5
        /\ statusResp.failed = 0
        /\ statusResp.results = <<>>

C21_Witness ==
    /\ StatusAnswered
    /\ BatchReturned
    /\ statusResp.id = batch.job_id
    /\ Len(batch.ret.results) = 1
    /\ batch.ret.results[1].status = "failed"
    /\ statusResp.failed = 0

RemoteRemoveBackground ==
    inst.kind = "autobg" /\ call.method = "remove_background"

\* the files stored under the URL a call returned
StoredUnder(url) == {f \in files : <<"/storage", "/processed/">> \o f.name = url}

\* the call has completed and what it stored is the source image, byte for byte
DegradedToOriginal ==
    /\ call.pc = "returned"
    /\ call.exc = None
    /\ call.ret.status = "completed"
    /\ StoredUnder(call.ret.url) # {}
    /\ \A f \in StoredUnder(call.ret.url) :
          f.data.format = "raw" /\ f.data.src = <<"content", call.image_url>>

\* C2: in the remote backend's remove_background, a transport failure or a
\* non-2xx answer of the segmentation POST does not raise: the call
\* completes and the stored bytes are the unmodified source image.
C2_PostFailureDegrades ==
    (RemoteRemoveBackground /\ call.response \in {"ConnectError", "HTTPStatusError"})
        => DegradedToOriginal

C2_Witness ==
    /\ RemoteRemoveBackground
    /\ call.response = "HTTPStatusError"
    /\ DegradedToOriginal
    /\ task.pc = "done"
    /\ task.response.status = 200

\* C3: a 2xx answer whose body is not JSON with an "image" or a "url" field
\* is degraded like a transport failure: the original bytes are stored and
\* the call completes.
C3_OtherBodyDegrades ==
    (RemoteRemoveBackground
        /\ call.response \in {"body_not_json", "body_number", "body_empty_object"})
        => DegradedToOriginal

Has(log, what) == \E k \in 1..Len(log) : log[k] = what

FetchFails(url) == url = "x"

SourceFetchFailed == Has(call.log, "fetch") /\ FetchFails(call.image_url)

BackgroundFetchFailed == Has(call.log, "fetch_bg") /\ FetchFails(call.background_url)

\* C4: when the fetch of the source image or of the custom background
\* fails, the operation raises, stores and returns nothing, the
\* single-image endpoint answers 500 and the batch records a failed entry.
C4_FetchFailurePropagates ==
    /\ (SourceFetchFailed \/ BackgroundFetchFailed) =>
          /\ call.pc = "raised"
          /\ call.exc = "HTTPStatusError"
          /\ call.ret = NoResult
          /\ ~Has(call.log, "store")
          /\ (task.kind # "batch" /\ task.pc = "done") =>
                (task.response.status = 500 /\ task.response.processed_url = <<>>)
    /\ \A k \in 1..Len(batch.results) :
          (FetchFails(batch.image_urls[k])
              /\ \E j \in 1..Len(batch.operations) : batch.operations[j] \in KnownOperations)
          => (batch.results[k].status = "failed" /\ batch.results[k].processed_url = <<>>)

C4_Witness ==
    /\ BackgroundFetchFailed
    /\ call.entry = "remove_background"
    /\ task.pc = "done"
    /\ task.response.status = 500

RemoveBackgroundDone == call.method = "remove_background" /\ call.pc = "returned"

\* the stored bytes are an image with the segmentation mask as alpha
CarriesAlpha(data) ==
    \/ data.format = "PNG" /\ data.image.mode = "RGBA" /\ data.image.mask
    \/ data.format = "remote" /\ data.remote.name = "transparent"

\* the stored bytes are an image without alpha, pasted over a backdrop
Flattened(data) ==
    \/ data.format = "JPEG" /\ data.image.mode = "RGB" /\ data.image.over # NoBackdrop
    \/ data.format = "remote" /\ data.remote.name # "transparent"

\* C13: what remove_background stores has an alpha channel and is a .png
\* when the background type is transparent, and is flattened over the
\* requested backdrop when it is solid, custom or a preset, for both
\* backends, the degraded path included.
C13_AlphaIffTransparent ==
    RemoveBackgroundDone =>
        \A f \in StoredUnder(call.ret.url) :
            /\ call.background_type = "transparent" =>
                  (f.name[3] = "png" /\ CarriesAlpha(f.data))
            /\ call.background_type \in {"solid", "custom", "white", "gray", "dark", "showroom"} =>
                  Flattened(f.data)

LocalBackend == inst.kind \in {"birefnet", "rembg"}

\* C14: in both local backends a composited non-transparent output is a
\* JPEG of quality 92 and a transparent output is a PNG.
C14_LocalEncoding ==
    (RemoveBackgroundDone /\ LocalBackend) =>
        \A f \in StoredUnder(call.ret.url) :
            /\ call.background_type = "transparent" => f.data.format = "PNG"
            /\ (call.background_type # "transparent" /\ f.data.image.over # NoBackdrop) =>
                  (f.data.format = "JPEG" /\ f.data.quality = 92)

\* the colours of the preset table, as RGB
PresetRgb ==
    [ white |-> <<255, 255, 255>>, gray |-> <<128, 128, 128>>,
      dark |-> <<31, 41, 55>>, showroom |-> <<45, 55, 72>> ]

\* C15: in BiRefNetService a preset background type is composited over its
\* table colour, a type that is neither transparent, solid, custom nor a
\* preset is composited over a default colour without raising, and
\* virtual_showroom maps an unknown showroom type to #2d3748.
C15_PresetResolution ==
    /\ ( /\ inst.kind = "birefnet"
         /\ call.entry = "remove_background"
         /\ Has(call.log, "segment")
         /\ call.background_type \notin
               {"transparent", "solid", "custom"} \cup DOMAIN PresetRgb )
       => call.pc = "returned"
    /\ (inst.kind = "birefnet" /\ RemoveBackgroundDone) =>
        \A f \in StoredUnder(call.ret.url) :
              /\ (call.entry = "remove_background"
                    /\ call.background_type \in DOMAIN PresetRgb) =>
                    f.data.image.over = [rgb |-> PresetRgb[call.background_type], src |-> <<>>]
              /\ (call.entry = "remove_background"
                    /\ call.background_type \notin
                          {"transparent", "solid", "custom"} \cup DOMAIN PresetRgb) =>
                    f.data.image.over.rgb # <<>>
              /\ (call.entry = "virtual_showroom"
                    /\ task.kind = "virtual_showroom"
                    /\ task.request.background_type = "nowhere") =>
                    f.data.image.over.rgb = <<45, 55, 72>>

EnhanceDone == call.method = "enhance_image" /\ call.pc = "returned"

AllTogglesOff(options) ==
    /\ DOMAIN options = {"auto_color", "contrast", "denoise", "sharpen"}
    /\ \A k \in DOMAIN options : ~options[k]

\* how often an adjustment occurs in the adjustments applied to a stored image
Occurrences(adj, what) == Cardinality({k \in 1..Len(adj) : adj[k] = what})

\* C17: enhance_image applies the brightness x1.05 step exactly once on
\* every call, and with all four toggles off it applies nothing else.
C17_BrightnessAlways ==
    EnhanceDone =>
        /\ StoredUnder(call.ret.url) # {}
        /\ \A f \in StoredUnder(call.ret.url) :
              /\ Occurrences(f.data.image.adj, "brightness*1.05") = 1
              /\ AllTogglesOff(call.options) =>
                    f.data.image.adj = <<"brightness*1.05">>

C17_Witness ==
    /\ EnhanceDone
    /\ inst.kind = "birefnet"
    /\ AllTogglesOff(call.options)
    /\ \E f \in StoredUnder(call.ret.url) : f.data.image.adj = <<"brightness*1.05">>

\* the client of the request in progress did not ask for denoise
DenoiseNotAsked ==
    \/ task.kind = "enhance" /\ "denoise" \notin task.request.fields_set
    \/ task.kind = "batch"

\* C18: an enhancement that does not explicitly enable denoise, through
\* POST /enhance with default fields or through enhance_image without
\* options, is stored without the blur step.
C18_DenoiseOffByDefault ==
    (EnhanceDone /\ DenoiseNotAsked) =>
        \A f \in StoredUnder(call.ret.url) :
            Occurrences(f.data.image.adj, "blur0.5") = 0

(***************************************************************************)
(* Compositing                                                             *)
(***************************************************************************)
Composited == canvas.out # <<>>

\* C16: over a solid backdrop of any colour, a pixel whose mask value is 255
\* comes out with exactly the foreground's R, G, B values.
C16_OpaqueMaskKeepsForeground ==
    (Composited /\ canvas.fg[4] = 255) =>
        canvas.out = <<canvas.fg[1], canvas.fg[2], canvas.fg[3]>>

C16_Witness ==
    /\ Composited
    /\ canvas.fg = <<255, 128, 0, 255>>
    /\ canvas.color = <<"#", "1", "1", "2", "2", "3", "3">>
    /\ canvas.out = <<255, 128, 0>>

(***************************************************************************)
(* Order of effects, stores and result shapes                              *)
(***************************************************************************)
\* the place of a step in the chain fetch, segment (or the remote POST),
\* background / result fetch, composite, store
Rank(step) ==
    CASE step = "fetch" -> 1
      [] step \in {"segment", "post"} -> 2
      [] step \in {"fetch_bg", "fetch_result"} -> 3
      [] step = "composite" -> 4
      [] OTHER -> 5

\* C22: the steps of one remove_background run in the order fetch, segment,
\* composite, store; the file is written last, a call that failed has
\* written nothing, and a result is returned only with its file written.
C22_StoreIsLast ==
    call.method = "remove_background" =>
        /\ \A m \in 1..Len(call.log) : \A n \in 1..Len(call.log) :
              m < n => Rank(call.log[m]) < Rank(call.log[n])
        /\ files # {} <=> Has(call.log, "store")
        /\ Has(call.log, "store") =>
              (call.pc = "returned" /\ call.log[Len(call.log)] = "store"
                  /\ call.log[1] = "fetch")
        /\ call.pc = "raised" => (files = {} /\ call.ret = NoResult)
        /\ call.pc = "returned" =>
              (StoredUnder(call.ret.url) # {} /\ call.ret.id # <<>>)

C22_Witness ==
    /\ call.method = "remove_background"
    /\ call.pc = "raised"
    /\ call.log = <<"fetch", "segment", "fetch_bg">>
    /\ files = {}

\* C23: when the object-store write fails during upload_image the request
\* fails: a success response is returned only for an object that is in the
\* bucket under the key the response names.
C23_FailedStoreFails ==
    Accepted => upResp.key \in bucket

\* the keys of the dict a call returned
ResultKeys(c) == DOMAIN c.ret

\* C24: a result of the remote backend's degraded path (the original bytes
\* stored after a remote failure) carries a warning field, and a result of
\* true background removal carries none.
C24_DegradedWarns ==
    (RemoteRemoveBackground /\ call.pc = "returned") =>
        (DegradedToOriginal <=> "warning" \in ResultKeys(call))

\* the files that the service calls of the batch wrote for image k
WrittenFor(k) ==
    UNION { StoredUnder(batch.calls[n].url) :
            n \in {m \in 1..Len(batch.calls) : batch.calls[m].i = k} }

\* C26: once batch_process has recorded an image as failed, no processed
\* file written for that image remains in storage, whatever the operation
\* list.
C26_FailedLeavesNothing ==
    (task.kind = "batch") =>
        \A k \in 1..Len(batch.results) :
            batch.results[k].status = "failed" => WrittenFor(k) = {}

\* an entry as the dict batch_process built: the keys it holds
EntryKeys(entry) ==
    {"image_url", "status"}
        \cup (IF entry.processed_url # <<>> THEN {"processed_url"} ELSE {})
        \cup (IF entry.error # None THEN {"error"} ELSE {})

\* C27: every entry of a batch result is well formed: a completed entry has
\* a processed_url and no error, a failed entry has an error and no
\* processed_url, for every operations list.
C27_EntriesWellFormed ==
    BatchReturned =>
        \A k \in 1..Len(batch.ret.results) :
            LET entry == batch.ret.results[k] IN
            /\ entry.status = "completed" =>
                  ("processed_url" \in EntryKeys(entry) /\ "error" \notin EntryKeys(entry))
            /\ entry.status = "failed" =>
                  ("error" \in EntryKeys(entry) /\ "processed_url" \notin EntryKeys(entry))

\* DELETE /{image_id} has been answered for the image the last upload stored
DeletedUploaded ==
    /\ delResp.status # 0
    /\ Accepted
    /\ upResp.key \in delResp.before
    /\ delResp.user = upReq.user
    /\ delResp.image_id = <<upResp.id>>

\* C25: after upload_image stored an image and returned its id, delete_image
\* by the same user with that id deletes exactly the key the image was
\* stored under, so the object is gone afterwards; and delete_image reports
\* success only when the storage delete succeeded.
C25_DeleteRoundTrip ==
    /\ DeletedUploaded => (delResp.key = upResp.key /\ upResp.key \notin bucket)
    /\ delResp.status = 200 => delResp.deleted

MultiAnswered == multiResp.status # 0

\* the keys named by the responses of the last multiple upload
MultiKeys == {multiResp.results[k].key : k \in 1..Len(multiResp.results)}

====
